---------------------------- MODULE Spec2Model ----------------------------
(***************************************************************************)
(* Model of src/src/lib.rs: the mixed RTL/LTR text layout, the two-line    *)
(* wrapper, the receipt layout pass, the ESC * 24-dot band packer and the  *)
(* band emission loop of print_receipt.                                    *)
(*                                                                         *)
(* Text is a sequence of one-character strings.  The alphabet stands for   *)
(* the character classes the code distinguishes:                           *)
(*   "a"  an ASCII letter            "1"  an ASCII digit                   *)
(*   " "  a space                    "_"  a non-breaking space (U+00A0)    *)
(*   "B"  an Arabic letter joining on both sides (beh)                     *)
(*   "A"  an Arabic letter joining to the right only (alef)                *)
(*   "..." the ellipsis mark U+2026 appended by wrap_mixed_rtl             *)
(*   "Bi" "Bn" "Bm" "Bf" "Ai" "Af"  the presentation forms (isolated,      *)
(*        initial, medial, final) the reshaper substitutes                 *)
(* Widths are kept in quarter pixels; measure rounds them to whole pixels  *)
(* as the code's f32 round does.                                           *)
(***************************************************************************)
EXTENDS Integers, Sequences, FiniteSets

VARIABLES
    \* ---- text inputs (wrap_mixed_rtl, draw_mixed_rtl_right, draw_ltr_right)
    scale,      \* font scale
    logical,    \* the logical input string
    max_w,      \* wrap_mixed_rtl's max_w
    x_right,    \* the right anchor of a draw call
    tpc,        \* which text operations have run
    lines,      \* result of wrap_mixed_rtl
    mixed,      \* what draw_mixed_rtl_right did: runs, glyph placements, run ends
    plain,      \* glyph placements of draw_ltr_right
    \* ---- render_receipt
    layout,     \* the Layout in use
    rpc,        \* position in render_receipt
    y,          \* the vertical cursor
    cols,       \* column widths and right edges
    idx,        \* items processed so far
    row,        \* what the last iteration of the item loop did
    dotted,     \* the put_pixel calls of draw_dotted
    used_h,     \* cropped height
    \* ---- print_receipt
    gray,       \* the rendered GrayImage
    threshold,  \* layout.threshold
    ppc,        \* position in the emission loop
    y0,         \* band start row
    band,       \* the last packed band
    sent        \* commands accepted by the printer so far

textVars   == <<scale, logical, max_w, x_right, tpc, lines, mixed, plain>>
renderVars == <<layout, rpc, y, cols, idx, row, dotted, used_h>>
printVars  == <<gray, threshold, ppc, y0, band, sent>>
vars == <<textVars, renderVars, printVars>>

---------------------------------------------------------------------------
(* Bounds *)

MaxLen == 4          \* longest input string of the draw specification
MaxWrapLen == 5      \* longest input string of the wrap specification
MaxWidth == 4        \* largest max_w of the wrap specification
MaxScale == 2        \* largest font scale of the text specifications
MaxItems == 34       \* most items of a receipt
MaxW == 2            \* widest image of the packing specification
PatRows == 3         \* rows of the tile an image of the packing specification repeats

---------------------------------------------------------------------------
(* Characters *)

ELL == "..."

LogicalChars == {"a", "1", " ", "_", "B", "A"}

\* char::is_whitespace, on the model's alphabet
is_whitespace(c) == c \in {" ", "_"}

is_ltr_char_digits_rtl(c) ==
    IF c = " " \/ c = "_" THEN FALSE
    ELSE c = "a"

is_ltr_char(c) ==
    IF c = " " \/ c = "_" THEN FALSE          \* neutral spaces
    ELSE IF c \in {"a", "1"} THEN TRUE        \* Latin letters / digits
    ELSE FALSE                                \* Arabic letters, their forms, the ellipsis

\* ar_reshaper::reshape_line: every Arabic letter is replaced by the
\* presentation form its neighbours call for; everything else, presentation
\* forms included, is passed through and joins to nothing.
IsArabicLetter(c) == c \in {"A", "B"}
JoinsNext(c) == c = "B"

ShapeAt(s, i) ==
    LET c    == s[i]
        prev == i > 1 /\ JoinsNext(s[i - 1])
        next == i < Len(s) /\ IsArabicLetter(s[i + 1])
    IN  IF c = "B"
        THEN IF prev /\ next THEN "Bm"
             ELSE IF prev THEN "Bf"
             ELSE IF next THEN "Bn"
             ELSE "Bi"
        ELSE IF c = "A"
        THEN IF prev THEN "Af" ELSE "Ai"
        ELSE c

shape(s) == [i \in 1..Len(s) |-> ShapeAt(s, i)]

---------------------------------------------------------------------------
(* Glyph metrics *)

\* h_metrics().advance_width of a glyph at scale 1, in quarter pixels
Advance(c) ==
    CASE c = "a"  -> 2
      [] c = "1"  -> 2
      [] c = " "  -> 1
      [] c = "_"  -> 1
      [] c = ELL  -> 3
      [] c = "B"  -> 3
      [] c = "Bi" -> 3
      [] c = "Bn" -> 1
      [] c = "Bm" -> 1
      [] c = "Bf" -> 3
      [] c = "A"  -> 1
      [] c = "Ai" -> 1
      [] c = "Af" -> 1

RECURSIVE AdvanceSum(_, _)
AdvanceSum(sc, s) ==
    IF s = <<>> THEN 0 ELSE Advance(Head(s)) * sc + AdvanceSum(sc, Tail(s))

\* f32::round of a non-negative number of quarter pixels (half rounds up)
Round(q) == (q + 2) \div 4

measure(sc, s) == Round(AdvanceSum(sc, s))

---------------------------------------------------------------------------
(* Drawing *)

\* draw_text_mut lays the glyphs of s out from pixel x, each glyph one
\* advance after the one before; positions are in quarter pixels.
RECURSIVE Place(_, _, _, _)
Place(sc, s, pos, yy) ==
    IF s = <<>> THEN {}
    ELSE {[g |-> Head(s), pos |-> pos, y |-> yy]}
         \cup Place(sc, Tail(s), pos + Advance(Head(s)) * sc, yy)

draw_crisp(sc, s, x, yy) == Place(sc, s, 4 * x, yy)

draw_ltr_right(sc, s, xr, yy) ==
    LET w == measure(sc, s)
    IN  draw_crisp(sc, s, xr - w, yy)

\* cur_is_ltr is the Option<bool>: <<>> for None, <<b>> for Some(b).
unwrap_or_true(opt) == IF opt = <<>> THEN TRUE ELSE opt[1]

\* cur_is_ltr.unwrap_or(false)
unwrap_or_false(opt) == IF opt = <<>> THEN FALSE ELSE opt[1]

\* The segmentation loop of draw_mixed_rtl_right.
RECURSIVE Segment(_, _, _, _, _)
Segment(shaped, i, runs, cur, cur_is_ltr) ==
    IF i > Len(shaped)
    THEN IF cur # <<>>
         THEN Append(runs, [is_ltr |-> unwrap_or_false(cur_is_ltr), text |-> cur])
         ELSE runs
    ELSE LET ch       == shaped[i]
             is_space == ch = " " \/ ch = "_"
             ltr      == IF is_space THEN unwrap_or_false(cur_is_ltr) ELSE is_ltr_char(ch)
         IN  IF cur_is_ltr = <<>>
             THEN Segment(shaped, i + 1, runs, Append(cur, ch), <<ltr>>)
             ELSE IF cur_is_ltr[1] = ltr \/ is_space
             THEN Segment(shaped, i + 1, runs, Append(cur, ch), cur_is_ltr)
             ELSE Segment(shaped, i + 1,
                          Append(runs, [is_ltr |-> cur_is_ltr[1], text |-> cur]),
                          <<ch>>, <<ltr>>)

Reverse(s) == [i \in 1..Len(s) |-> s[Len(s) + 1 - i]]

\* The inner loop over seg.chars().rev(): each character is measured and
\* drawn by itself at x, and x advances by its rounded width.
RECURSIVE DrawRtlChars(_, _, _, _)
DrawRtlChars(sc, chars, x, yy) ==
    IF chars = <<>> THEN [glyphs |-> {}, x |-> x]
    ELSE LET s    == <<Head(chars)>>
             cw   == measure(sc, s)
             rest == DrawRtlChars(sc, Tail(chars), x + cw, yy)
         IN  [glyphs |-> draw_crisp(sc, s, x, yy) \cup rest.glyphs, x |-> rest.x]

\* The loop over the runs: right moves left by each run's width.  For every
\* run it records the cursor it was anchored at, its measured width and,
\* for an RTL run, the value of x when its character loop ended.
RECURSIVE DrawRuns(_, _, _, _, _)
DrawRuns(sc, runs, i, right, yy) ==
    IF i > Len(runs) THEN [glyphs |-> {}, ends |-> <<>>]
    ELSE LET seg   == runs[i].text
             seg_w == measure(sc, seg)
             rtl   == DrawRtlChars(sc, Reverse(seg), right - seg_w, yy)
             rest  == DrawRuns(sc, runs, i + 1, right - seg_w, yy)
         IN  IF runs[i].is_ltr
             THEN [glyphs |-> draw_ltr_right(sc, seg, right, yy) \cup rest.glyphs,
                   ends   |-> <<[is_ltr |-> TRUE, right |-> right, seg_w |-> seg_w,
                                 x_end |-> right]>> \o rest.ends]
             ELSE [glyphs |-> rtl.glyphs \cup rest.glyphs,
                   ends   |-> <<[is_ltr |-> FALSE, right |-> right, seg_w |-> seg_w,
                                 x_end |-> rtl.x]>> \o rest.ends]

draw_mixed_rtl_right(sc, s, xr, yy) ==
    LET shaped == shape(s)
        runs   == Segment(shaped, 1, <<>>, <<>>, <<>>)
        drawn  == DrawRuns(sc, runs, 1, xr, yy)
    IN  [runs |-> runs, glyphs |-> drawn.glyphs, ends |-> drawn.ends]

---------------------------------------------------------------------------
(* Wrapping *)

\* str::split_inclusive(char::is_whitespace): a token ends after each
\* whitespace character; a non-empty rest is the last token.
RECURSIVE SplitInclusive(_, _)
SplitInclusive(s, cur) ==
    IF s = <<>> THEN (IF cur = <<>> THEN <<>> ELSE <<cur>>)
    ELSE IF is_whitespace(Head(s))
         THEN <<Append(cur, Head(s))>> \o SplitInclusive(Tail(s), <<>>)
         ELSE SplitInclusive(Tail(s), Append(cur, Head(s)))

RECURSIVE trim_end(_)
trim_end(s) ==
    IF s # <<>> /\ is_whitespace(s[Len(s)]) THEN trim_end(SubSeq(s, 1, Len(s) - 1))
    ELSE s

\* The token loop of wrap_mixed_rtl; the result is (line, out) at loop exit.
RECURSIVE WrapLoop(_, _, _, _, _, _)
WrapLoop(sc, tokens, i, line, out, mw) ==
    IF i > Len(tokens) THEN [line |-> line, out |-> out]
    ELSE LET tok    == tokens[i]
             test   == line \o tok
             test_w == measure(sc, shape(test))
         IN  IF test_w <= mw \/ line = <<>>
             THEN WrapLoop(sc, tokens, i + 1, line \o tok, out, mw)
             ELSE LET pushed == Append(out, trim_end(line))
                  IN  IF Len(pushed) = 2
                      THEN [line |-> tok, out |-> pushed]
                      ELSE WrapLoop(sc, tokens, i + 1, tok, pushed, mw)

RECURSIVE PopToFit_unmarked(_, _, _)
PopToFit_unmarked(sc, s2, mw) ==
    IF measure(sc, shape(s2)) > mw /\ s2 # <<>>
    THEN PopToFit_unmarked(sc, SubSeq(s2, 1, Len(s2) - 1), mw)
    ELSE s2

\* while measure(s2 + ell) > max_w && !s2.is_empty() { s2.pop(); }
RECURSIVE PopToFit(_, _, _)
PopToFit(sc, s2, mw) ==
    IF measure(sc, shape(Append(s2, ELL))) > mw /\ s2 # <<>>
    THEN PopToFit(sc, SubSeq(s2, 1, Len(s2) - 1), mw)
    ELSE s2

Ellipsize(sc, out, mw) ==
    IF Len(out) = 2
    THEN <<out[1], Append(trim_end(PopToFit(sc, out[2], mw)), ELL)>>
    ELSE out

wrap_mixed_rtl(sc, s, mw) ==
    LET tokens == SplitInclusive(s, <<>>)
        loop   == WrapLoop(sc, tokens, 1, <<>>, <<>>, mw)
        out    == IF Len(loop.out) < 2 /\ loop.line # <<>>
                  THEN Append(loop.out, trim_end(loop.line))
                  ELSE loop.out
        kept   == IF Len(out) > 2 THEN SubSeq(out, 1, 2) ELSE out
    IN  Ellipsize(sc, kept, mw)

---------------------------------------------------------------------------
(* Idle values of the components a specification does not exercise *)

NoDraw == [runs |-> <<>>, glyphs |-> {}, ends |-> <<>>]
NoRow  == [name |-> <<>>, y |-> 0, name_ys |-> <<>>, nums |-> <<>>, advance |-> 0]
NoCols == [w_name |-> 0, w_qty |-> 0, w_price |-> 0, w_total |-> 0,
           r_name |-> 0, r_qty |-> 0, r_price |-> 0, r_total |-> 0]
NoLayout == [name |-> "none"]
NoImage == [w |-> 0, h |-> 0, pat |-> <<>>]

TextIdle ==
    /\ scale = 0 /\ logical = <<>> /\ max_w = 0 /\ x_right = 0
    /\ tpc = {} /\ lines = <<>> /\ mixed = NoDraw /\ plain = {}

RenderIdle ==
    /\ layout = NoLayout /\ rpc = "idle" /\ y = 0 /\ cols = NoCols
    /\ idx = 0 /\ row = NoRow /\ dotted = {} /\ used_h = 0

PrintIdle ==
    /\ gray = NoImage /\ threshold = 0 /\ ppc = "idle" /\ y0 = 0
    /\ band = <<>> /\ sent = <<>>

Strings(chars, n) == UNION {[1..k -> chars] : k \in 0..n}

---------------------------------------------------------------------------
(* Specification of the wrapper: wrap_mixed_rtl applied to every input *)

WrapChars == {"a", " ", "B", "A"}

InitWrap ==
    /\ scale \in 1..MaxScale
    /\ logical \in Strings(WrapChars, MaxWrapLen)
    /\ max_w \in 0..MaxWidth
    /\ x_right = 0 /\ tpc = {} /\ lines = <<>> /\ mixed = NoDraw /\ plain = {}
    /\ RenderIdle /\ PrintIdle

Wrap ==
    /\ "wrap" \notin tpc
    /\ lines' = wrap_mixed_rtl(scale, logical, max_w)
    /\ tpc' = tpc \cup {"wrap"}
    /\ UNCHANGED <<scale, logical, max_w, x_right, mixed, plain>>
    /\ UNCHANGED <<renderVars, printVars>>

NextWrap == Wrap

SpecWrap == InitWrap /\ [][NextWrap]_vars

---------------------------------------------------------------------------
(* Specification of the line renderer: both draw functions on every input *)

AnchorX == 40

InitDraw ==
    /\ scale \in 1..MaxScale
    /\ logical \in Strings(LogicalChars, MaxLen)
    /\ max_w = 0
    /\ x_right = AnchorX
    /\ tpc = {} /\ lines = <<>> /\ mixed = NoDraw /\ plain = {}
    /\ RenderIdle /\ PrintIdle

DrawMixedRtlRight ==
    /\ "mixed" \notin tpc
    /\ mixed' = draw_mixed_rtl_right(scale, logical, x_right, 0)
    /\ tpc' = tpc \cup {"mixed"}
    /\ UNCHANGED <<scale, logical, max_w, x_right, lines, plain>>
    /\ UNCHANGED <<renderVars, printVars>>

DrawLtrRight ==
    /\ "ltr" \notin tpc
    /\ plain' = draw_ltr_right(scale, logical, x_right, 0)
    /\ tpc' = tpc \cup {"ltr"}
    /\ UNCHANGED <<scale, logical, max_w, x_right, lines, mixed>>
    /\ UNCHANGED <<renderVars, printVars>>

NextDraw == DrawMixedRtlRight \/ DrawLtrRight

SpecDraw == InitDraw /\ [][NextDraw]_vars

---------------------------------------------------------------------------
(* Claims about the line renderer *)

IsNeutral(c) == c = " " \/ c = "_"
AllNeutral(s) == \A i \in 1..Len(s) : IsNeutral(s[i])
\* a purely-LTR string: Latin letters, digits, and spaces anywhere
PureLtr(s) == \A i \in 1..Len(s) : s[i] \in {"a", "1", " ", "_"}

\* C3: every RTL run drawn character by character from (cursor - run width)
\* ends exactly at the cursor: the rounded widths of its characters add up
\* to the rounded width of the run, so glyphs and runs neither overlap nor
\* leave a gap.
C3_RunEndsAtCursor ==
    "mixed" \in tpc =>
        \A i \in 1..Len(mixed.ends) : mixed.ends[i].x_end = mixed.ends[i].right

\* C4 (as stated): for every purely-LTR string, spaces allowed anywhere,
\* draw_mixed_rtl_right places every glyph where draw_ltr_right places it.
C4_PureLtrSameAsSingleRun ==
    (tpc = {"mixed", "ltr"} /\ PureLtr(logical)) => mixed.glyphs = plain

\* C4 (amended): for every purely-LTR string that does not start with a
\* space, draw_mixed_rtl_right places every glyph where draw_ltr_right
\* places it.
C4_PureLtrNoLeadingSpace ==
    (/\ tpc = {"mixed", "ltr"}
     /\ PureLtr(logical)
     /\ (logical = <<>> \/ ~IsNeutral(logical[1])))
    => mixed.glyphs = plain

C4_Witness ==
    /\ tpc = {"mixed", "ltr"}
    /\ logical = <<"a", " ", "1", "_">>
    /\ Len(mixed.runs) = 1
    /\ Cardinality(plain) = 4
    /\ mixed.glyphs = plain

\* C7 (as stated): an input of only neutral characters produces exactly one
\* run, tagged LTR.
C7_NeutralOnlyOneLtrRun ==
    ("mixed" \in tpc /\ logical # <<>> /\ AllNeutral(logical))
    => (Len(mixed.runs) = 1 /\ mixed.runs[1].is_ltr)

\* C7 (amended): a non-empty input of only neutral characters produces
\* exactly one run, holding the whole input and tagged RTL.
C7_NeutralOnlyOneRtlRun ==
    ("mixed" \in tpc /\ logical # <<>> /\ AllNeutral(logical))
    => (/\ Len(mixed.runs) = 1
        /\ ~mixed.runs[1].is_ltr
        /\ mixed.runs[1].text = logical)

C7_Witness ==
    /\ "mixed" \in tpc
    /\ logical = <<" ", "_", " ">>
    /\ Len(mixed.runs) = 1
    /\ ~mixed.runs[1].is_ltr

---------------------------------------------------------------------------
(* Claims about the wrapper *)

LineWidth(l) == measure(scale, shape(l))
HasWhitespace(l) == \E i \in 1..Len(l) : is_whitespace(l[i])
NonWs(s) == SelectSeq(s, LAMBDA c : ~is_whitespace(c))
EndsWithEll(l) == l # <<>> /\ l[Len(l)] = ELL
WithoutEll(l) == IF EndsWithEll(l) THEN SubSeq(l, 1, Len(l) - 1) ELSE l

C8_EllipsisOnlyIfContentRemains ==
    ("wrap" \in tpc /\ Len(lines) = 2 /\ EndsWithEll(lines[2]))
    => NonWs(lines[1]) \o NonWs(WithoutEll(lines[2])) # NonWs(logical)

---------------------------------------------------------------------------
(* render_receipt *)

CanvasHeight == 2000
MaxUsedH == 1998

\* Layout::default(); cols are the fractions in hundredths
DefaultLayout ==
    [name |-> "default",
     paper_width_px |-> 576, threshold |-> 150, margin_h |-> 0,
     margin_top |-> -28, margin_bottom |-> 0, row_gap |-> 32,
     fonts |-> [title |-> 90, header_dt |-> 45, header_no |-> 46, header_cols |-> 42,
                item |-> 44, total_label |-> 48, total_value |-> 66,
                footer |-> 45, footer_phones |-> 56],
     cols |-> <<60, 11, 12, 17>>]

\* The layouts render_receipt is given: the default, a narrow paper with
\* side margins, and the default with other column fractions.
Layouts ==
    { DefaultLayout,
      [DefaultLayout EXCEPT !.name = "narrow", !.paper_width_px = 384, !.margin_h = 8],
      [DefaultLayout EXCEPT !.name = "even", !.cols = <<55, 15, 15, 15>>] }

\* (inner_w as f32 * fraction) as i32, for inner_w >= 0
ColWidth(inner_w, hundredths) == (inner_w * hundredths) \div 100

\* The column geometry of render_receipt
Columns(l) ==
    LET paper_w    == l.paper_width_px
        inner_w    == paper_w - l.margin_h * 2
        right_edge == l.margin_h + inner_w
        w_name     == ColWidth(inner_w, l.cols[1])
        w_qty      == ColWidth(inner_w, l.cols[2])
        w_price    == ColWidth(inner_w, l.cols[3])
        w_total    == ColWidth(inner_w, l.cols[4])
        r_name     == right_edge
        r_qty      == r_name - w_name
        r_price    == r_qty - w_qty
        r_total    == r_price - w_total
    IN  [w_name |-> w_name, w_qty |-> w_qty, w_price |-> w_price, w_total |-> w_total,
         r_name |-> r_name, r_qty |-> r_qty, r_price |-> r_price, r_total |-> r_total]

Max(a, b) == IF a >= b THEN a ELSE b
Min(a, b) == IF a <= b THEN a ELSE b
Rep(c, n) == [i \in 1..n |-> c]

\* Item names: empty, blank, short, Arabic, one that needs two lines at the
\* name column width and one that needs more than two.
ItemNames ==
    { <<>>, <<" ">>, <<"a", "1">>, <<"B", "B", "A", " ", "a">>,
      Rep("a", 10) \o <<" ">> \o Rep("B", 10),
      Rep("a", 10) \o <<" ">> \o Rep("a", 10) \o <<" ">> \o Rep("a", 10) }

\* The put_pixel calls of draw_dotted(img, y, left, right)
draw_dotted(yy, left, right) ==
    LET py == Max(yy, 0)
        x0 == Max(left, 0)
    IN  { <<x0 + 10 * k + dx, py>> :
            k \in 0..((Max(right - x0, 0) + 9) \div 10), dx \in 0..2 }
        \cap { <<x, py>> : x \in x0..(right - 1) }

\* ImageBuffer::put_pixel panics outside the buffer
InBounds(l, px) ==
    /\ px[1] >= 0 /\ px[1] < l.paper_width_px
    /\ px[2] >= 0 /\ px[2] < CanvasHeight

\* The body of the loop over data.items for one item
ItemRow(l, c, y_in, name) ==
    LET wrapped    == wrap_mixed_rtl(l.fonts.item, name, c.w_name)
        lns        == SubSeq(wrapped, 1, Min(Len(wrapped), 2))
        line_count == Max(Len(lns), 1)
        step       == l.row_gap - 4
    IN  [name    |-> name,
         y       |-> y_in,
         name_ys |-> [i \in 1..Len(lns) |-> y_in + (i - 1) * step],
         nums    |-> IF Len(lns) >= 1
                     THEN <<[col |-> "qty",   x_right |-> c.r_qty,   y |-> y_in],
                            [col |-> "price", x_right |-> c.r_price, y |-> y_in],
                            [col |-> "total", x_right |-> c.r_total, y |-> y_in]>>
                     ELSE <<>>,
         advance |-> line_count * step]

InitRender ==
    /\ TextIdle /\ PrintIdle
    /\ layout \in Layouts
    /\ rpc = "title"
    /\ y = layout.margin_top
    /\ cols = NoCols /\ idx = 0 /\ row = NoRow /\ dotted = {} /\ used_h = 0

RenderUnchanged == UNCHANGED <<textVars, printVars, layout>>

Title ==
    /\ rpc = "title"
    /\ y' = y + layout.fonts.title - 8
    /\ rpc' = "datetime"
    /\ UNCHANGED <<cols, idx, row, dotted, used_h>> /\ RenderUnchanged

DateTime ==
    /\ rpc = "datetime"
    /\ y' = y + layout.fonts.header_dt + 2
    /\ rpc' = "number"
    /\ UNCHANGED <<cols, idx, row, dotted, used_h>> /\ RenderUnchanged

InvoiceNo ==
    /\ rpc = "number"
    /\ y' = y + layout.fonts.header_no + 2
    /\ rpc' = "columns"
    /\ UNCHANGED <<cols, idx, row, dotted, used_h>> /\ RenderUnchanged

Headings ==
    /\ rpc = "columns"
    /\ cols' = Columns(layout)
    /\ y' = y + layout.row_gap - 6
    /\ rpc' = "items"
    /\ UNCHANGED <<idx, row, dotted, used_h>> /\ RenderUnchanged

\* one iteration of `for it in &data.items`
Item ==
    /\ rpc = "items"
    /\ idx < MaxItems
    /\ \E name \in ItemNames :
         /\ row' = ItemRow(layout, cols, y, name)
         /\ y' = y + row'.advance
    /\ idx' = idx + 1
    /\ UNCHANGED <<rpc, cols, dotted, used_h>> /\ RenderUnchanged

\* the loop is over: y += 18; draw_dotted; y += 12
Separator ==
    /\ rpc = "items"
    /\ LET px == draw_dotted(y + 18, layout.margin_h, layout.paper_width_px - layout.margin_h)
       IN  /\ dotted' = px
           /\ IF \A p \in px : InBounds(layout, p)
              THEN rpc' = "discount" /\ y' = y + 18 + 12
              ELSE rpc' = "panic" /\ y' = y + 18
    /\ UNCHANGED <<cols, idx, row, used_h>> /\ RenderUnchanged

\* if data.discount > 0.0001 { ... y += row_gap - 6 }
Discount ==
    /\ rpc = "discount"
    /\ \E has_discount \in BOOLEAN :
         y' = IF has_discount THEN y + layout.row_gap - 6 ELSE y
    /\ rpc' = "total"
    /\ UNCHANGED <<cols, idx, row, dotted, used_h>> /\ RenderUnchanged

GrandTotal ==
    /\ rpc = "total"
    /\ y' = y + layout.row_gap
    /\ rpc' = "footer"
    /\ UNCHANGED <<cols, idx, row, dotted, used_h>> /\ RenderUnchanged

Footer ==
    /\ rpc = "footer"
    /\ \E has_phones \in BOOLEAN :
         y' = y + (layout.fonts.footer + 2) + (layout.fonts.footer + 2)
                + (IF has_phones THEN layout.fonts.footer_phones + 2 ELSE 0)
                + layout.margin_bottom
    /\ rpc' = "crop"
    /\ UNCHANGED <<cols, idx, row, dotted, used_h>> /\ RenderUnchanged

\* let used_h = (y as u32).min(1998)
Crop ==
    /\ rpc = "crop"
    /\ used_h' = IF y < 0 THEN MaxUsedH ELSE Min(y, MaxUsedH)
    /\ rpc' = "done"
    /\ UNCHANGED <<y, cols, idx, row, dotted>> /\ RenderUnchanged

NextRender ==
    \/ Title \/ DateTime \/ InvoiceNo \/ Headings \/ Item \/ Separator
    \/ Discount \/ GrandTotal \/ Footer \/ Crop

SpecRender == InitRender /\ [][NextRender]_vars

---------------------------------------------------------------------------
(* Claims about render_receipt *)

\* C2: render_receipt never aborts, whatever the number of items: every
\* pixel write of the dotted separator lands at y < the canvas height and
\* x < the paper width.
C2_NeverAborts ==
    /\ rpc # "panic"
    /\ \A p \in dotted : InBounds(layout, p)

\* C9: the column right edges are computed right to left, each the previous
\* right edge minus the previous column's width; the four columns do not
\* overlap and the total column stays right of the left margin.
C9_ColumnEdges ==
    rpc \notin {"title", "datetime", "number", "columns"} =>
        /\ cols.r_qty = cols.r_name - cols.w_name
        /\ cols.r_price = cols.r_qty - cols.w_qty
        /\ cols.r_total = cols.r_price - cols.w_price
        /\ cols.r_qty <= cols.r_name - cols.w_name
        /\ cols.r_price <= cols.r_qty - cols.w_qty
        /\ cols.r_total <= cols.r_price - cols.w_price
        /\ cols.r_total - cols.w_total >= layout.margin_h

\* C10: for each item, whatever its name, quantity, price and total are
\* drawn exactly once, at the y of the item's first sub-line, and the
\* cursor advances by (number of sub-lines drawn) x (row_gap - 4).
C10_NumbersOncePerItem ==
    (rpc = "items" /\ idx >= 1) =>
        /\ Len(row.nums) = 3
        /\ {row.nums[i].col : i \in 1..Len(row.nums)} = {"qty", "price", "total"}
        /\ \A i \in 1..Len(row.nums) : row.nums[i].y = row.y
        /\ row.advance = Len(row.name_ys) * (layout.row_gap - 4)
        /\ y = row.y + row.advance

---------------------------------------------------------------------------
(* pack_esc_star_24 *)

\* A GrayImage is a width, a height and a tile of pixel values, two columns
\* wide, that the image repeats.
get_pixel(img, x, yy) == img.pat[(yy % Len(img.pat)) + 1][(x % 2) + 1]

BitMask_lsb_first(bit) == 2 ^ bit

\* 1 << (7 - bit)
BitMask(bit) == 2 ^ (7 - bit)

RECURSIVE PackByte(_, _, _, _, _, _)
PackByte(img, x, y_0, byte, bit, thr) ==
    IF bit > 7 THEN 0
    ELSE LET yy == y_0 + (byte * 8 + bit)
         IN  (IF yy < img.h /\ get_pixel(img, x, yy) <= thr THEN BitMask(bit) ELSE 0)
             + PackByte(img, x, y_0, byte, bit + 1, thr)

\* for x in 0..w { for byte in 0..3 { band.push(b) } }
pack_esc_star_24(img, y_0, thr) ==
    [n \in 1..(3 * img.w) |->
        PackByte(img, (n - 1) \div 3, y_0, (n - 1) % 3, 0, thr)]

\* while y0 < gray.height()
MoreBands_inclusive(y_0, h) == y_0 <= h

MoreBands(y_0, h) == y_0 < h

PixVals == {150, 151}
Thresholds == {149, 150}
ImageHeights == {1, 24, 25, 49}

\* the images handed to the band loop: small ones over every tile, and one
\* of the paper width
Images ==
    { [w |-> w, h |-> h, pat |-> pat] :
        w \in 1..MaxW, h \in ImageHeights, pat \in [1..PatRows -> [1..2 -> PixVals]] }
    \cup { [w |-> 576, h |-> 25, pat |-> <<<<150, 151>>, <<151, 151>>, <<151, 150>>>>] }

---------------------------------------------------------------------------
(* The band emission loop of print_receipt *)

\* A command handed to the printer: the call, the bytes, and what it is.
Cmd(op, what, bytes) == [op |-> op, what |-> what, bytes |-> bytes]

\* p.custom(&[0x1B, 0x2A, 33, nL, nH])
RasterCmd(img) ==
    LET n  == img.w % 65536
        nL == n % 256
        nH == (n \div 256) % 256
    IN  Cmd("custom", "raster", <<27, 42, 33, nL, nH>>)

BandCmd(b) == Cmd("custom", "band", b)
LfCmd      == Cmd("custom", "lf", <<10>>)
CutCmd     == Cmd("print_cut", "cut", <<>>)
PrintCmd   == Cmd("print", "print", <<>>)

InitPrint ==
    /\ TextIdle /\ RenderIdle
    /\ gray \in Images
    /\ threshold \in Thresholds
    /\ ppc = "loop" /\ y0 = 0 /\ band = <<>> /\ sent = <<>>

PrintUnchanged == UNCHANGED <<textVars, renderVars, gray, threshold>>

\* while y0 < gray.height() { let band = pack_esc_star_24(&gray, y0, layout.threshold);
PackBand ==
    /\ ppc = "loop"
    /\ MoreBands(y0, gray.h)
    /\ band' = pack_esc_star_24(gray, y0, threshold)
    /\ ppc' = "raster"
    /\ UNCHANGED <<y0, sent>> /\ PrintUnchanged

\* A call that either is accepted or returns Err, which `?` returns from
\* the job.
Send(cmd, next) ==
    \E ok \in BOOLEAN :
        IF ok THEN sent' = Append(sent, cmd) /\ ppc' = next
              ELSE sent' = sent /\ ppc' = "error"

SendRaster ==
    /\ ppc = "raster"
    /\ Send(RasterCmd(gray), "band")
    /\ UNCHANGED <<y0, band>> /\ PrintUnchanged

SendBand ==
    /\ ppc = "band"
    /\ Send(BandCmd(band), "lf")
    /\ UNCHANGED <<y0, band>> /\ PrintUnchanged

\* p.custom(&[0x0A])?; y0 += 24;
SendLf ==
    /\ ppc = "lf"
    /\ Send(LfCmd, "loop")
    /\ y0' = IF ppc' = "loop" THEN y0 + 24 ELSE y0
    /\ UNCHANGED band /\ PrintUnchanged

FinalLf ==
    /\ ppc = "loop"
    /\ ~MoreBands(y0, gray.h)
    /\ Send(LfCmd, "cut")
    /\ UNCHANGED <<y0, band>> /\ PrintUnchanged

Cut ==
    /\ ppc = "cut"
    /\ Send(CutCmd, "print")
    /\ UNCHANGED <<y0, band>> /\ PrintUnchanged

\* p.print()
Flush ==
    /\ ppc = "print"
    /\ Send(PrintCmd, "done")
    /\ UNCHANGED <<y0, band>> /\ PrintUnchanged

NextPrint == PackBand \/ SendRaster \/ SendBand \/ SendLf \/ FinalLf \/ Cut \/ Flush

SpecPrint == InitPrint /\ [][NextPrint]_vars

---------------------------------------------------------------------------
(* Claims about pack_esc_star_24 and the emission loop *)

\* the bands among the commands sent
Bands(s) ==
    LET bs == SelectSeq(s, LAMBDA c : c.what = "band")
    IN  [j \in 1..Len(bs) |-> bs[j].bytes]

BitOf(byte, pos) == (byte \div (2 ^ pos)) % 2
Black(img, x, r, thr) == r < img.h /\ get_pixel(img, x, r) <= thr
\* the pixel of column x, row r read back from the bands
Decode(bands, x, r) ==
    BitOf(bands[(r \div 24) + 1][3 * x + ((r % 24) \div 8) + 1], 7 - (r % 8))

\* C5: every band is exactly 3*width bytes, column-major; bit (7 - k) of
\* byte b of column x is 1 iff row y0+8b+k is inside the image and its pixel
\* is <= threshold; once all bands are out, decoding them bit by bit gives
\* back the black/white pattern, and rows past the height decode as 0.
C5_PackRoundTrip ==
    LET bands == Bands(sent)
    IN  /\ ppc \in {"raster", "band", "lf"} =>
              /\ Len(band) = 3 * gray.w
              /\ \A x \in 0..(gray.w - 1), b \in 0..2, k \in 0..7 :
                    (BitOf(band[3 * x + b + 1], 7 - k) = 1)
                    <=> Black(gray, x, y0 + 8 * b + k, threshold)
              /\ \A n \in 1..Len(band) : band[n] \in 0..255
        /\ ppc \in {"cut", "print", "done"} =>
              /\ 24 * Len(bands) >= gray.h
              /\ \A x \in 0..(gray.w - 1), r \in 0..(24 * Len(bands) - 1) :
                    Decode(bands, x, r) = IF Black(gray, x, r, threshold) THEN 1 ELSE 0

C5_Witness ==
    /\ ppc = "done"
    /\ gray.w = 2 /\ gray.h = 25
    /\ Len(Bands(sent)) = 2
    /\ \E x \in 0..1 : Decode(Bands(sent), x, 24) = 1
    /\ \E x \in 0..1 : Decode(Bands(sent), x, 3) = 0
    /\ \A x \in 0..1 : Decode(Bands(sent), x, 25) = 0

NBands(h) == (h + 23) \div 24

RECURSIVE BandCmds(_, _, _)
BandCmds(img, thr, j) ==
    IF j >= NBands(img.h) THEN <<>>
    ELSE <<RasterCmd(img), BandCmd(pack_esc_star_24(img, 24 * j, thr)), LfCmd>>
         \o BandCmds(img, thr, j + 1)

\* the whole job for an image: the bands in increasing y0, a line feed, the
\* cut, and the flush
Job(img, thr) == BandCmds(img, thr, 0) \o <<LfCmd, CutCmd, PrintCmd>>

IsPrefix(s, u) == Len(s) <= Len(u) /\ s = SubSeq(u, 1, Len(s))

C6_Sequence ==
    LET job == Job(gray, threshold)
    IN  /\ IsPrefix(sent, job)
        /\ ppc = "done" <=> sent = job
        /\ ppc = "error" => Len(sent) < Len(job)

\* C6: the commands go out as (raster command, band, line feed) for
\* y0 = 0, 24, 48, ... while y0 < h, ceil(h/24) bands in all, then one line
\* feed and the cut; nothing follows the cut but the flush, and after a
\* failed call nothing more is sent.
C6_EmissionOrder ==
    /\ [](C6_Sequence)
    /\ [][ppc = "error" => (sent' = sent /\ ppc' = "error")]_vars
    /\ [][sent' = sent \/ (Len(sent') = Len(sent) + 1 /\ IsPrefix(sent, sent'))]_vars

C6_Witness ==
    /\ ppc = "done"
    /\ gray.h = 49
    /\ Len(sent) = 12
    /\ sent[7].what = "raster" /\ sent[8].what = "band" /\ sent[9].what = "lf"
    /\ sent[10].what = "lf" /\ sent[11].what = "cut"

=============================================================================
